---- MODULE Spec2Model ----
(***************************************************************************)
(* Model of the thumbnail pipeline of pdf-thumbnail (src/src/lib/pdf.ts):  *)
(* createThumbnail (one file, under an AbortSignal) and createThumbnails   *)
(* (a batch of descriptors mapped to concurrent createThumbnail calls and  *)
(* joined with Promise.all).  Every await of the code is a point where     *)
(* other invocations, and the owner of the signal, may take a step.        *)
(* A second specification, HookSpec, models the React hook useThumbnails    *)
(* (src/src/hooks/useThumbnails.tsx) around a createThumbnails whose calls  *)
(* settle as their promise type allows.                                     *)
(***************************************************************************)
EXTENDS Integers, Sequences, FiniteSets, TLC

VARIABLES
    mode,          \* "single": createThumbnail is called directly; "batch": createThumbnails
    env,           \* [isNode, canvasInstalled]: the runtime the module was loaded in
    files,         \* the descriptor list given to createThumbnails (one descriptor in "single")
    opts,          \* the options record of the call
    aborted,       \* signal.aborted
    canvasModule,  \* the module-level cache of import("canvas")
    phase,         \* "init", "running" (awaiting), "resolved"
    items,         \* one record per started createThumbnail invocation
    completed,     \* the counter of createThumbnails
    progress,      \* the onProgress calls made so far, as <<completed, total>>
    errorCalls,    \* the onError calls made so far, as the identifier passed
    doneOrder,     \* the invocations in the order in which they settled
    returned,      \* the value the outermost call resolved to
    hookPhase,     \* useThumbnails: "idle" (not rendered), "mounted", "unmounted"
    props,         \* [files, options]: the arguments of the latest render of the hook
    state,         \* the React state of the hook: [thumbnails, isLoading, error]
    deps,          \* the dependency values the effect last ran with
    effectPending, \* a render changed the dependencies and the effect has not run yet
    calls,         \* the createThumbnails calls the hook has started, in order
    cleanup,       \* the call whose cleanup function the effect returned, 0 for none
    renders        \* the number of re-renders so far

\* the variables of createThumbnail / createThumbnails
pipeVars == <<mode, env, files, opts, aborted, canvasModule, phase, items,
              completed, progress, errorCalls, doneOrder, returned>>

\* the variables of useThumbnails
hookVars == <<hookPhase, props, state, deps, effectPending, calls, cleanup, renders>>

vars == <<pipeVars, hookVars>>

----------------------------------------------------------------------------
(* Bounds of the model. *)

\* longest descriptor list given to createThumbnails
MaxFiles == 2

\* largest value of the page option that is tried (the smallest is -1)
MaxPageOpt == 4

----------------------------------------------------------------------------
(* Optional values: <<>> is an omitted option, <<v>> a given one. *)

None == <<>>

Some(v) == <<v>>

\* `const { x = d } = options ?? {}`
Default(o, d) == IF o = None THEN d ELSE o[1]

Min(a, b) == IF a <= b THEN a ELSE b

Max(a, b) == IF a >= b THEN a ELSE b

----------------------------------------------------------------------------
(* The files of the environment: what the PDF engine does with each       *)
(* resolved identifier.  Any identifier not listed here does not exist.   *)

World(id) ==
    CASE id = "a.pdf"     -> [load |-> "ok", numPages |-> 2, pageOk |-> TRUE, renderOk |-> TRUE]
      [] id = "p/a.pdf"   -> [load |-> "ok", numPages |-> 1, pageOk |-> TRUE, renderOk |-> TRUE]
      [] id = "c.pdf"     -> [load |-> "ok", numPages |-> 3, pageOk |-> TRUE, renderOk |-> TRUE]
      [] id = "empty.pdf" -> [load |-> "ok", numPages |-> 0, pageOk |-> TRUE, renderOk |-> TRUE]
      [] id = "g.pdf"     -> [load |-> "ok", numPages |-> 2, pageOk |-> FALSE, renderOk |-> TRUE]
      [] id = "r.pdf"     -> [load |-> "ok", numPages |-> 1, pageOk |-> TRUE, renderOk |-> FALSE]
      [] id = "s.pdf"     -> [load |-> "throwsString", numPages |-> 0, pageOk |-> FALSE, renderOk |-> FALSE]
      [] OTHER            -> [load |-> "throwsError", numPages |-> 0, pageOk |-> FALSE, renderOk |-> FALSE]

\* the value a failing stage throws: an Error object with a message, or a bare string
ErrorOf(msg) == [isError |-> TRUE, message |-> msg]

StringThrown(s) == [isError |-> FALSE, message |-> s]

----------------------------------------------------------------------------
(* JavaScript values of the result: a string or a Buffer.                   *)
(* A data URL is the pair <<mime prefix, base64 text>> that split(",")      *)
(* yields; base64 text is a sequence of sextets, 64 standing for "=".       *)

Str(v) == [kind |-> "string", val |-> v]

Buf(bytes) == [kind |-> "Buffer", val |-> bytes]

RECURSIVE Base64Encode(_)
Base64Encode(b) ==
    IF b = <<>> THEN <<>>
    ELSE IF Len(b) = 1 THEN
        << b[1] \div 4, (b[1] % 4) * 16, 64, 64 >>
    ELSE IF Len(b) = 2 THEN
        << b[1] \div 4, (b[1] % 4) * 16 + b[2] \div 16, (b[2] % 16) * 4, 64 >>
    ELSE
        << b[1] \div 4, (b[1] % 4) * 16 + b[2] \div 16,
           (b[2] % 16) * 4 + b[3] \div 64, b[3] % 64 >>
        \o Base64Encode(SubSeq(b, 4, Len(b)))

RECURSIVE Base64Decode(_)
Base64Decode(t) ==
    IF Len(t) < 4 THEN <<>>
    ELSE IF t[3] = 64 THEN
        << t[1] * 4 + t[2] \div 16 >>
    ELSE IF t[4] = 64 THEN
        << t[1] * 4 + t[2] \div 16, (t[2] % 16) * 16 + t[3] \div 4 >>
    ELSE
        << t[1] * 4 + t[2] \div 16, (t[2] % 16) * 16 + t[3] \div 4, (t[3] % 4) * 64 + t[4] >>
        \o Base64Decode(SubSeq(t, 5, Len(t)))

\* the PNG bytes of the surface after page `pageIndex` of `id` was painted at `scale`
Paint(id, pageIndex, scale) == << World(id).numPages * 16 + pageIndex, scale >>

\* canvas.toDataURL("image/png")
ToDataURL(canvas) == << "data:image/png;base64", Base64Encode(canvas.png) >>

\* canvas.toBuffer("image/png") of the canvas package
ToBuffer(canvas) == Buf(canvas.png)

\* Buffer.from(text) without the "base64" argument: the characters themselves
BufferFromNoDecoding(text) == Buf(text)

\* Buffer.from(text, "base64")
BufferFrom(text) == Buf(Base64Decode(text))

\* getResult that leaves the tag "string" when a buffer is produced
getResultStringTag(canvasInfo, toBuffer) ==
    LET dataUrl == ToDataURL(canvasInfo.canvas)
    IN  IF toBuffer
        THEN [thumbType |-> "string",
              thumbData |-> IF canvasInfo.type = "node"
                            THEN ToBuffer(canvasInfo.canvas)
                            ELSE BufferFrom(dataUrl[2])]
        ELSE [thumbType |-> "string", thumbData |-> Str(dataUrl)]

getResult(canvasInfo, toBuffer) ==
    LET dataUrl == ToDataURL(canvasInfo.canvas)
    IN  IF toBuffer
        THEN [thumbType |-> "buffer",
              thumbData |-> IF canvasInfo.type = "node"
                            THEN ToBuffer(canvasInfo.canvas)
                            ELSE BufferFrom(dataUrl[2])]
        ELSE [thumbType |-> "string", thumbData |-> Str(dataUrl)]

----------------------------------------------------------------------------
(* One createThumbnail invocation.                                          *)

\* the value of a promise that has not settled
NoValue == [thumbType |-> "pending"]

\* JavaScript's undefined
Undefined == [thumbType |-> "undefined"]

\* a createThumbnail invocation that has been called for descriptor d
NewItem(d, file) ==
    [ d             |-> d,           \* the descriptor (batch) the call is made for
      file          |-> file,        \* the identifier passed to createThumbnail
      pc            |-> "called",    \* the await the invocation is suspended at
      stages        |-> <<>>,        \* the stages started so far, in order
      listener      |-> FALSE,       \* abortHandler is registered on the signal
      adds          |-> 0,           \* addEventListener calls made
      removes       |-> 0,           \* removeEventListener calls made
      taskDestroyed |-> FALSE,       \* loadingTask.destroy() was called
      doc           |-> "none",      \* "none", "open", "closed"
      destroys      |-> 0,           \* doc.destroy() calls made
      numPages      |-> 0,           \* doc.numPages
      pageReq       |-> 0,           \* the index passed to doc.getPage (0: no request)
      exit          |-> "",          \* the path on which the call left the pipeline
      abortedAtCall |-> FALSE,       \* the signal was aborted when the call was made
      ckLoad        |-> None,        \* what the checkpoint after the load observed
      ckPage        |-> None,        \* what the checkpoint before rendering observed
      ckCatch       |-> None,        \* what the catch block observed
      thrown        |-> None,        \* the value the catch block received
      settle        |-> "pending",   \* "pending", "resolved", "rejected"
      counted       |-> FALSE,       \* the map callback ran completed++ for this call
      result        |-> NoValue,     \* what the promise of createThumbnail resolved to
      slot          |-> NoValue ]    \* what the map callback of createThumbnails resolved to

\* signal?.aborted
SignalAborted(o, ab) == o.hasSignal /\ ab

\* return value
Finish(it, exit, value) ==
    [it EXCEPT !.pc = "done", !.exit = exit, !.settle = "resolved", !.result = value]

\* an error escaping the async function
Reject(it, exit) ==
    [it EXCEPT !.pc = "done", !.exit = exit, !.settle = "rejected"]

\* doc.destroy()
Destroy(it) == [it EXCEPT !.doc = "closed", !.destroys = @ + 1]

\* a catch block that reports the error before it looks at the signal
CatchBlockErrorFirst(it, o, ab, e) ==
    Finish(it, "catchError", [thumbType |-> "error", thumbData |-> Str(e.message)])

\* a catch block that lets the error escape
CatchBlockRethrow(it, o, ab, e) ==
    IF SignalAborted(o, ab)
    THEN Finish(it, "catchAbort", Undefined)
    ELSE Reject(it, "catchError")

\* catch (e) { if (signal?.aborted) return undefined; log.error(...) }: the function
\* then falls off its end
CatchBlock(it, o, ab, e) ==
    IF SignalAborted(o, ab)
    THEN Finish(it, "catchAbort", Undefined)
    ELSE Finish(it, "catchError", Undefined)

\* the try block threw e: the catch block runs, with what it was given and what the
\* signal said at that moment on record
Caught(it, o, ab, e) ==
    CatchBlock([it EXCEPT !.thrown = Some(e), !.ckCatch = Some(o.hasSignal /\ ab)],
               o, ab, e)

\* a load that is awaited without the abort listener
BeginLoadNoListener(it, o) ==
    [it EXCEPT !.pc = "loading", !.stages = Append(@, "load")]

\* getDocument, addEventListener, up to `await loadingTask.promise`
BeginLoad(it, o) ==
    [it EXCEPT !.pc = "loading",
               !.stages = Append(@, "load"),
               !.listener = o.hasSignal,
               !.adds = IF o.hasSignal THEN @ + 1 ELSE @]

\* createThumbnail that starts the load without looking at the signal
EnterNoCheck(it, o, ab, e) ==
    IF e.isNode THEN [it EXCEPT !.pc = "canvasmod"] ELSE BeginLoad(it, o)

\* createThumbnail from its call to its first await
Enter(it, o, ab, e) ==
    IF SignalAborted(o, ab)
    THEN Finish(it, "preAbort", Undefined)
    ELSE IF e.isNode
         THEN [it EXCEPT !.pc = "canvasmod"]
         ELSE BeginLoad(it, o)

\* a finally block that leaves abortHandler registered on the signal
RemoveListenerKeeps(it, o) == it

\* finally { signal?.removeEventListener('abort', abortHandler) }
RemoveListener(it, o) ==
    [it EXCEPT !.listener = FALSE,
               !.removes = IF o.hasSignal THEN @ + 1 ELSE @]

\* the clamp without its lower limit
PageToFetchNoFloor(page, numPages) == Min(page, numPages)

\* Math.max(1, Math.min(page, doc.numPages))
PageToFetch(page, numPages) == Max(1, Min(page, numPages))

\* the first checkpoint left out
LoadResolvedNoCheck(it, o, ab, n) ==
    LET it1 == [RemoveListener(it, o) EXCEPT !.doc = "open", !.numPages = n]
    IN  [it1 EXCEPT !.pc = "getpage",
                    !.stages = Append(@, "getPage"),
                    !.pageReq = PageToFetch(Default(o.page, 1), n)]

\* a checkpoint after the load that returns without closing the document
LoadResolvedNoClose(it, o, ab, n) ==
    LET it1 == [RemoveListener(it, o) EXCEPT !.doc = "open", !.numPages = n]
    IN  IF SignalAborted(o, ab)
        THEN Finish(it1, "afterLoad", Undefined)
        ELSE [it1 EXCEPT !.pc = "getpage",
                         !.stages = Append(@, "getPage"),
                         !.pageReq = PageToFetch(Default(o.page, 1), n)]

\* loadingTask.promise resolved with a document of n pages: the checkpoint after the
\* load, the page selection and the call of doc.getPage
LoadResolved(it, o, ab, n) ==
    LET it1 == [RemoveListener(it, o) EXCEPT !.doc = "open", !.numPages = n]
    IN  IF SignalAborted(o, ab)
        THEN Finish(Destroy(it1), "afterLoad", Undefined)
        ELSE [it1 EXCEPT !.pc = "getpage",
                         !.stages = Append(@, "getPage"),
                         !.pageReq = PageToFetch(Default(o.page, 1), n)]

\* loadingTask.promise rejected with e
LoadRejected(it, o, ab, e) == Caught(RemoveListener(it, o), o, ab, e)

\* a continuation that starts page.render without waiting for the canvas
PageResolvedRendersAtOnce(it, o, ab) ==
    IF SignalAborted(o, ab)
    THEN Finish(Destroy(it), "afterPage", Undefined)
    ELSE [it EXCEPT !.pc = "render", !.stages = Append(@, "render")]

\* a continuation after getPage that does not look at the signal
PageResolvedNoCheck(it, o, ab) ==
    [it EXCEPT !.pc = "canvas", !.stages = Append(@, "surface")]

\* doc.getPage resolved: the checkpoint before rendering, then makeThumbOfPage up to
\* `await createCanvas(...)`
PageResolved(it, o, ab) ==
    IF SignalAborted(o, ab)
    THEN Finish(Destroy(it), "afterPage", Undefined)
    ELSE [it EXCEPT !.pc = "canvas", !.stages = Append(@, "surface")]

\* createCanvas resolved: page.render is started
CanvasResolved(it) ==
    [it EXCEPT !.pc = "render", !.stages = Append(@, "render")]

\* a render step that draws on one surface kept for the whole batch, so what an
\* invocation encodes depends on how many of the others have finished before it
RenderResolvedSharedSurface(it, o, e) ==
    LET canvasInfo == [type   |-> IF e.isNode THEN "node" ELSE "html",
                       canvas |-> [png |-> Paint(it.file, it.pageReq + completed,
                                                 Default(o.scale, 1))]]
        toBuffer   == o.output = Some("buffer")
        pageThumb  == getResult(canvasInfo, toBuffer)
    IN  Finish(Destroy([it EXCEPT !.stages = Append(@, "encode")]), "normal", pageThumb)

\* a continuation with one more checkpoint, after the rendering
RenderResolvedChecksSignal(it, o, e) ==
    LET canvasInfo == [type   |-> IF e.isNode THEN "node" ELSE "html",
                       canvas |-> [png |-> Paint(it.file, it.pageReq, Default(o.scale, 1))]]
    IN  IF SignalAborted(o, aborted)
        THEN Finish(Destroy(it), "afterRender", Undefined)
        ELSE Finish(Destroy([it EXCEPT !.stages = Append(@, "encode")]), "normal",
                    getResult(canvasInfo, o.output = Some("buffer")))

\* page.render resolved: getResult, doc.destroy(), return pageThumb
RenderResolved(it, o, e) ==
    LET canvasInfo == [type   |-> IF e.isNode THEN "node" ELSE "html",
                       canvas |-> [png |-> Paint(it.file, it.pageReq, Default(o.scale, 1))]]
        toBuffer   == o.output = Some("buffer")
        pageThumb  == getResult(canvasInfo, toBuffer)
    IN  Finish(Destroy([it EXCEPT !.stages = Append(@, "encode")]), "normal", pageThumb)

----------------------------------------------------------------------------
(* The inputs the calls are made with.                                      *)

Envs ==
    { [isNode |-> FALSE, canvasInstalled |-> FALSE],
      [isNode |-> TRUE,  canvasInstalled |-> TRUE],
      [isNode |-> TRUE,  canvasInstalled |-> FALSE] }

SingleFiles == {"a.pdf", "c.pdf", "empty.pdf", "g.pdf", "r.pdf", "s.pdf", "b.jpg"}

BatchFiles == {"", "a.pdf", "b.jpg"}

PageOpts == {None} \cup { Some(p) : p \in -1..MaxPageOpt }

SingleOpts ==
    [ output : {None, Some("string"), Some("buffer")},
      scale : {None, Some(2)},
      page : PageOpts,
      hasSignal : BOOLEAN,
      prefix : {None},
      hasProgress : {FALSE},
      concurrency : {None},
      hasOnError : {FALSE} ]

\* the option records given to createThumbnails: every combination of the options
\* the code reads, and a few with the concurrency and onError options set as well
BatchOpts ==
    [ output : {None, Some("buffer")},
      scale : {None},
      page : {None, Some(2)},
      hasSignal : BOOLEAN,
      prefix : {None, Some("p/")},
      hasProgress : BOOLEAN,
      concurrency : {None},
      hasOnError : {FALSE} ]
    \cup
    [ output : {None},
      scale : {None},
      page : {None},
      hasSignal : BOOLEAN,
      prefix : {None, Some("p/")},
      hasProgress : {TRUE},
      concurrency : {Some(1), Some(2)},
      hasOnError : {TRUE} ]

\* the descriptor lists: entry k carries its position k as an additional field
Descriptors(fs) == [k \in 1..Len(fs) |-> [file |-> fs[k], extra |-> k]]

FileLists == UNION { [1..n -> BatchFiles] : n \in 0..MaxFiles }

----------------------------------------------------------------------------
(* createThumbnails.                                                        *)

\* { ...d, ...thumb }
Merge(d, thumb) ==
    [k \in DOMAIN d \cup DOMAIN thumb |-> IF k \in DOMAIN thumb THEN thumb[k] ELSE d[k]]

\* a filter that also loses the last valid descriptor
ValidFilesDropLast(fs) ==
    LET valid == SelectSeq(fs, LAMBDA d : d.file # "")
    IN  SubSeq(valid, 1, Len(valid) - 1)

\* no filter at all
ValidFilesNoFilter(fs) == fs

\* files.filter(d => d.file)
ValidFiles(fs) == SelectSeq(fs, LAMBDA d : d.file # "")

\* `${prefix ?? ""}${d.file}`
Resolved(o, d) == Default(o.prefix, "") \o d.file

\* the map callback from its call to its first await
MapEntry(d, o, ab, e) ==
    IF SignalAborted(o, ab)
    THEN [NewItem(d, Resolved(o, d)) EXCEPT
              !.pc = "done", !.exit = "skipped", !.settle = "resolved", !.slot = Undefined]
    ELSE Enter([NewItem(d, Resolved(o, d)) EXCEPT !.abortedAtCall = o.hasSignal /\ ab],
               o, ab, e)

\* a callback that writes the identifier it passed to createThumbnail into the entry
MapReturnResolvedFile(it) ==
    IF it.result # Undefined
    THEN [k \in DOMAIN it.d \cup DOMAIN it.result |->
              IF k = "file" THEN it.file
              ELSE IF k \in DOMAIN it.result THEN it.result[k] ELSE it.d[k]]
    ELSE Undefined

\* the map callback after `await createThumbnail(...)`: what it returns
MapReturn(it) ==
    IF it.result # Undefined THEN Merge(it.d, it.result) ELSE Undefined

\* a filter that lets every value through
IsDefinedAlways(v) == TRUE

\* thumbnails.filter(isDefined)
IsDefined(v) == v # Undefined

\* a callback that reports the counter as it was before the increment
OnProgressBeforeIncrement(o, log, done, total) ==
    IF o.hasProgress THEN Append(log, <<done - 1, total>>) ELSE log

\* onProgress?.(completed, total), after completed++
OnProgress(o, log, done, total) ==
    IF o.hasProgress THEN Append(log, <<done, total>>) ELSE log

\* results pushed to the list as the callbacks settle
PromiseAllBySettlement(its, order) ==
    [k \in 1..Len(order) |-> its[order[k]].slot]

\* Promise.all(filePromises): the values in the order of the promises, whatever the
\* order in which they settled
PromiseAll(its, order) ==
    [k \in 1..Len(its) |-> its[k].slot]

----------------------------------------------------------------------------
(* The state machine.                                                       *)

Init ==
    /\ mode \in {"single", "batch"}
    /\ env \in Envs
    /\ IF mode = "single"
       THEN /\ files \in { Descriptors(<<f>>) : f \in SingleFiles }
            /\ opts \in SingleOpts
       ELSE /\ files \in { Descriptors(fs) : fs \in FileLists }
            /\ opts \in BatchOpts
    /\ aborted = FALSE
    /\ canvasModule = FALSE
    /\ phase = "init"
    /\ items = <<>>
    /\ completed = 0
    /\ progress = <<>>
    /\ errorCalls = <<>>
    /\ doneOrder = <<>>
    /\ returned = NoValue
    /\ hookPhase = "idle"
    /\ props = None
    /\ state = None
    /\ deps = None
    /\ effectPending = FALSE
    /\ calls = <<>>
    /\ cleanup = 0
    /\ renders = 0

\* a map callback that adds one to the value the counter had when the batch started,
\* so that a concurrent callback's increment is lost
StepLostUpdate(i, it2) ==
    LET settles  == it2.pc = "done"
        counted  == settles /\ mode = "batch" /\ it2.settle = "resolved"
    IN  /\ items' = [items EXCEPT ![i] =
                        IF counted
                        THEN [it2 EXCEPT !.slot = MapReturn(it2), !.counted = TRUE]
                        ELSE it2]
        /\ completed' = IF counted THEN 1 ELSE completed
        /\ progress' = IF counted
                       THEN OnProgress(opts, progress, 1, Len(items))
                       ELSE progress
        /\ UNCHANGED errorCalls
        /\ doneOrder' = IF settles THEN Append(doneOrder, i) ELSE doneOrder
        /\ IF settles /\ mode = "single"
           THEN /\ phase' = IF it2.settle = "rejected" THEN "rejected" ELSE "resolved"
                /\ returned' = it2.result
           ELSE UNCHANGED <<phase, returned>>

\* invocation i has taken a step to it2; when the step settled it, the code that
\* awaits it runs: the rest of the map callback (batch) or the caller (single)
Step(i, it2) ==
    LET settles  == it2.pc = "done"
        counted  == settles /\ mode = "batch" /\ it2.settle = "resolved"
    IN  /\ items' = [items EXCEPT ![i] =
                        IF counted
                        THEN [it2 EXCEPT !.slot = MapReturn(it2), !.counted = TRUE]
                        ELSE it2]
        /\ completed' = IF counted THEN completed + 1 ELSE completed
        /\ progress' = IF counted
                       THEN OnProgress(opts, progress, completed + 1, Len(items))
                       ELSE progress
        /\ UNCHANGED errorCalls     \* the callback makes no other call
        /\ doneOrder' = IF settles THEN Append(doneOrder, i) ELSE doneOrder
        /\ IF settles /\ mode = "single"
           THEN /\ phase' = IF it2.settle = "rejected" THEN "rejected" ELSE "resolved"
                /\ returned' = it2.result
           ELSE UNCHANGED <<phase, returned>>

\* createThumbnail(file, options) called directly
CallSingle ==
    /\ mode = "single"
    /\ phase = "init"
    /\ LET it == Enter([NewItem(files[1], files[1].file) EXCEPT
                             !.abortedAtCall = opts.hasSignal /\ aborted],
                        opts, aborted, env)
       IN  /\ items' = <<it>>
           /\ doneOrder' = IF it.pc = "done" THEN <<1>> ELSE <<>>
           /\ phase' = IF it.pc = "done" THEN "resolved" ELSE "running"
           /\ returned' = it.result
    /\ UNCHANGED <<hookVars, mode, env, files, opts, aborted, canvasModule, completed, progress,
                   errorCalls>>

\* createThumbnails without the check of the signal before the items are mapped
CallBatchNoAbortCheck ==
    /\ mode = "batch"
    /\ phase = "init"
    /\ IF Len(files) = 0
       THEN /\ phase' = "resolved"
            /\ returned' = <<>>
            /\ UNCHANGED items
       ELSE LET validFiles == SelectSeq(files, LAMBDA d : d.file # "")
            IN  /\ items' = [k \in 1..Len(validFiles) |->
                                MapEntry(validFiles[k], opts, aborted, env)]
                /\ phase' = "running"
                /\ UNCHANGED returned
    /\ completed' = 0
    /\ UNCHANGED <<hookVars, mode, env, files, opts, aborted, canvasModule, progress, errorCalls,
                   doneOrder>>

\* createThumbnails(files, options) from its call to `await Promise.all(filePromises)`
CallBatch ==
    /\ mode = "batch"
    /\ phase = "init"
    /\ IF Len(files) = 0 \/ SignalAborted(opts, aborted)
       THEN /\ phase' = "resolved"
            /\ returned' = <<>>
            /\ UNCHANGED items
       ELSE LET validFiles == ValidFiles(files)
            IN  /\ items' = [k \in 1..Len(validFiles) |->
                                MapEntry(validFiles[k], opts, aborted, env)]
                /\ phase' = "running"
                /\ UNCHANGED returned
    /\ completed' = 0
    /\ UNCHANGED <<hookVars, mode, env, files, opts, aborted, canvasModule, progress, errorCalls,
                   doneOrder>>

\* controller.abort(): the flag is set and the registered listeners run
Abort ==
    /\ opts.hasSignal
    /\ ~aborted
    /\ aborted' = TRUE
    /\ items' = [k \in 1..Len(items) |->
                    IF items[k].listener
                    THEN [items[k] EXCEPT !.taskDestroyed = TRUE]
                    ELSE items[k]]
    /\ UNCHANGED <<hookVars, mode, env, files, opts, canvasModule, phase, completed, progress,
                   errorCalls, doneOrder, returned>>

\* `await getCanvasModule()` of createThumbnail settles
CanvasModuleSettles(i) ==
    /\ items[i].pc = "canvasmod"
    /\ IF canvasModule \/ env.canvasInstalled
       THEN /\ canvasModule' = TRUE
            /\ Step(i, BeginLoad(items[i], opts))
       ELSE /\ UNCHANGED canvasModule
            /\ Step(i, Caught(items[i], opts, aborted,
                              ErrorOf("Cannot find package 'canvas'")))
    /\ UNCHANGED <<hookVars, mode, env, files, opts, aborted>>

\* loadingTask.promise resolves
LoadResolves(i) ==
    /\ items[i].pc = "loading"
    /\ World(items[i].file).load = "ok"
    /\ Step(i, LoadResolved([items[i] EXCEPT !.ckLoad = Some(opts.hasSignal /\ aborted)],
                             opts, aborted, World(items[i].file).numPages))
    /\ UNCHANGED <<hookVars, mode, env, files, opts, aborted, canvasModule>>

\* loadingTask.promise rejects: the file cannot be read or parsed, or the task was
\* destroyed by the abort listener
LoadRejects(i) ==
    /\ items[i].pc = "loading"
    /\ \/ /\ World(items[i].file).load = "throwsError"
          /\ Step(i, LoadRejected(items[i], opts, aborted, ErrorOf("Invalid PDF structure.")))
       \/ /\ World(items[i].file).load = "throwsString"
          /\ Step(i, LoadRejected(items[i], opts, aborted, StringThrown("raw string error")))
       \/ /\ items[i].taskDestroyed
          /\ Step(i, LoadRejected(items[i], opts, aborted, ErrorOf("Loading aborted")))
    /\ UNCHANGED <<hookVars, mode, env, files, opts, aborted, canvasModule>>

\* doc.getPage(n) resolves for a page the document has
GetPageOk(it) ==
    /\ it.pageReq \in 1..it.numPages
    /\ World(it.file).pageOk

PageResolves(i) ==
    /\ items[i].pc = "getpage"
    /\ GetPageOk(items[i])
    /\ Step(i, PageResolved([items[i] EXCEPT !.ckPage = Some(opts.hasSignal /\ aborted)],
                             opts, aborted))
    /\ UNCHANGED <<hookVars, mode, env, files, opts, aborted, canvasModule>>

PageRejects(i) ==
    /\ items[i].pc = "getpage"
    /\ ~GetPageOk(items[i])
    /\ Step(i, Caught(items[i], opts, aborted, ErrorOf("Invalid page request.")))
    /\ UNCHANGED <<hookVars, mode, env, files, opts, aborted, canvasModule>>

\* `await createCanvas(...)` of makeThumbOfPage settles
CanvasResolves(i) ==
    /\ items[i].pc = "canvas"
    /\ Step(i, CanvasResolved(items[i]))
    /\ UNCHANGED <<hookVars, mode, env, files, opts, aborted, canvasModule>>

\* `await page.render(...).promise` settles
RenderResolves(i) ==
    /\ items[i].pc = "render"
    /\ World(items[i].file).renderOk
    /\ Step(i, RenderResolved(items[i], opts, env))
    /\ UNCHANGED <<hookVars, mode, env, files, opts, aborted, canvasModule>>

RenderRejects(i) ==
    /\ items[i].pc = "render"
    /\ ~World(items[i].file).renderOk
    /\ Step(i, Caught(items[i], opts, aborted, ErrorOf("Rendering failed")))
    /\ UNCHANGED <<hookVars, mode, env, files, opts, aborted, canvasModule>>

\* a join that returns as soon as one of the promises has settled
AwaitAllFirstSettled ==
    /\ mode = "batch"
    /\ phase = "running"
    /\ \E k \in 1..Len(items) : items[k].pc = "done"
    /\ phase' = "resolved"
    /\ returned' = SelectSeq([k \in 1..Len(items) |-> items[k].slot],
                             LAMBDA v : v \notin {Undefined, NoValue})
    /\ UNCHANGED <<hookVars, mode, env, files, opts, aborted, canvasModule, items,
                   completed, progress, errorCalls, doneOrder>>

\* `await Promise.all(filePromises)` settles, and createThumbnails returns
AwaitAll ==
    /\ mode = "batch"
    /\ phase = "running"
    /\ \A k \in 1..Len(items) : items[k].pc = "done"
    /\ IF \E k \in 1..Len(items) : items[k].settle = "rejected"
       THEN /\ phase' = "rejected"
            /\ UNCHANGED returned
       ELSE /\ phase' = "resolved"
            /\ returned' = SelectSeq(PromiseAll(items, doneOrder), IsDefined)
    /\ UNCHANGED <<hookVars, mode, env, files, opts, aborted, canvasModule, items, completed,
                   progress, errorCalls, doneOrder>>

Next ==
    \/ CallSingle
    \/ CallBatch
    \/ Abort
    \/ AwaitAll
    \/ \E i \in 1..Len(items) : CanvasModuleSettles(i)
    \/ \E i \in 1..Len(items) : LoadResolves(i)
    \/ \E i \in 1..Len(items) : LoadRejects(i)
    \/ \E i \in 1..Len(items) : PageResolves(i)
    \/ \E i \in 1..Len(items) : PageRejects(i)
    \/ \E i \in 1..Len(items) : CanvasResolves(i)
    \/ \E i \in 1..Len(items) : RenderResolves(i)
    \/ \E i \in 1..Len(items) : RenderRejects(i)

Spec == Init /\ [][Next]_vars

\* the continuation of `await Promise.all(filePromises)` is a microtask: it runs once
\* every promise has settled
LiveSpec == Init /\ [][Next]_vars /\ WF_vars(AwaitAll)

----------------------------------------------------------------------------
(* useThumbnails.  A file list is an array with an identity: the effect     *)
(* compares its dependencies with Object.is, so two arrays of equal content *)
(* are different dependencies.  null is None.                               *)

\* most re-renders of a mounted hook
MaxRenders == 1

\* the arrays the hook is rendered with: ref is the identity of the array
HookLists ==
    { [ref |-> 0, list |-> <<>>],
      [ref |-> 1, list |-> Descriptors(<<"a.pdf">>)],
      [ref |-> 2, list |-> Descriptors(<<"a.pdf">>)],
      [ref |-> 3, list |-> Descriptors(<<"a.pdf", "b.jpg">>)] }

\* UseThumbnailsOptions
HookOptions ==
    { [prefix |-> None, scale |-> None, page |-> None],
      [prefix |-> Some("p/"), scale |-> None, page |-> None],
      [prefix |-> None, scale |-> Some(2), page |-> None],
      [prefix |-> None, scale |-> None, page |-> Some(2)] }

\* the arguments the hook is rendered with: every array without options, and the
\* one-file array with each of the options
HookProps ==
    { pr \in [files : HookLists, options : HookOptions] :
          pr.files.ref = 1 \/ pr.options = [prefix |-> None, scale |-> None, page |-> None] }

\* what createThumbnails may resolve to for descriptor d: a thumbnail or an
\* ErrorThumbnail
EntriesFor(d) ==
    { Merge(d, [thumbType |-> "string", thumbData |-> "data:image/png;base64,mock-" \o d.file]),
      Merge(d, [thumbType |-> "error", thumbData |-> "PDF has no pages"]) }

\* the lists createThumbnails may resolve to for the list it was given: for every
\* descriptor a thumbnail, an ErrorThumbnail or nothing, in input order
RECURSIVE ResultLists(_)
ResultLists(list) ==
    IF list = <<>> THEN { <<>> }
    ELSE LET rest == ResultLists(Tail(list))
         IN  rest \cup { <<e>> \o r : e \in EntriesFor(Head(list)), r \in rest }

\* the values createThumbnails may reject with: an Error or a bare string
Rejections == { ErrorOf("Failed to generate thumbnails"), StringThrown("String error message") }

\* React.useState(...)
InitialState == [thumbnails |-> <<>>, isLoading |-> FALSE, error |-> None]

\* an updater that returns the previous state whatever it holds
ResetStateKeeps(prev) == prev

\* the updater of the empty-list branch of the effect
ResetState(prev) ==
    IF Len(prev.thumbnails) > 0 \/ prev.isLoading \/ prev.error # None
    THEN [thumbnails |-> <<>>, isLoading |-> FALSE, error |-> None]
    ELSE prev

\* an effect that starts the call without raising the loading flag
StartLoadingNoFlag(prev) == [prev EXCEPT !.error = None]

\* setState(prev => ({ ...prev, isLoading: true, error: null }))
StartLoading(prev) == [prev EXCEPT !.isLoading = TRUE, !.error = None]

\* failures.map(e => `${e.file}: ${e.thumbData}`).join("; ")
RECURSIVE JoinMessages(_)
JoinMessages(failures) ==
    IF failures = <<>> THEN ""
    ELSE LET first == Head(failures).file \o ": " \o Head(failures).thumbData
         IN  IF Len(failures) = 1 THEN first
             ELSE first \o "; " \o JoinMessages(Tail(failures))

\* a then callback that keeps the error entries among the thumbnails
StateOfResultsKeepsErrors(results) ==
    LET failures == SelectSeq(results, LAMBDA r : r.thumbType = "error")
    IN  [thumbnails |-> results,
         isLoading  |-> FALSE,
         error      |-> IF Len(failures) > 0
                        THEN Some(ErrorOf(JoinMessages(failures)))
                        ELSE None]

\* the state the then callback sets
StateOfResults(results) ==
    LET successes == SelectSeq(results, LAMBDA r : r.thumbType # "error")
        failures  == SelectSeq(results, LAMBDA r : r.thumbType = "error")
    IN  [thumbnails |-> successes,
         isLoading  |-> FALSE,
         error      |-> IF Len(failures) > 0
                        THEN Some(ErrorOf(JoinMessages(failures)))
                        ELSE None]

\* err instanceof Error ? err : new Error(String(err))
AsError(err) == IF err.isError THEN err ELSE ErrorOf(err.message)

\* a then callback that does not look at isCancelled
ThenCallbackUnguarded(call, prev, results) == StateOfResults(results)

\* .then(results => { if (!isCancelled) { ... setState(...) } })
ThenCallback(call, prev, results) ==
    IF ~call.isCancelled THEN StateOfResults(results) ELSE prev

\* a rejection handler that also drops the thumbnails shown so far
CatchCallbackClearsThumbnails(call, prev, err) ==
    IF ~call.isCancelled
    THEN [thumbnails |-> <<>>, isLoading |-> FALSE, error |-> Some(AsError(err))]
    ELSE prev

\* .catch(err => { if (!isCancelled) { setState(prev => ...) } })
CatchCallback(call, prev, err) ==
    IF ~call.isCancelled
    THEN [prev EXCEPT !.isLoading = FALSE, !.error = Some(AsError(err))]
    ELSE prev

\* createThumbnails(files, { ...options, signal: abortController.signal }) with a new
\* AbortController and isCancelled = false
NewCall(p) ==
    [ files       |-> p.files,
      options     |-> p.options,
      aborted     |-> FALSE,       \* abortController.signal.aborted
      isCancelled |-> FALSE,
      status      |-> "pending",   \* of the promise createThumbnails returned
      value       |-> NoValue,     \* what the promise settled with
      wrote       |-> FALSE ]      \* the settlement of the call set the state

\* a cleanup function that sets the flag and leaves the controller alone
CleanupFlagOnly(cs, k) ==
    IF k = 0 THEN cs
    ELSE [cs EXCEPT ![k].isCancelled = TRUE]

\* the cleanup function the effect returned for call k (none when k = 0)
Cleanup(cs, k) ==
    IF k = 0 THEN cs
    ELSE [cs EXCEPT ![k].isCancelled = TRUE, ![k].aborted = TRUE]

\* a dependency array that leaves out the page option
DepsOfWithoutPage(p) == <<p.files.ref, p.options.prefix, p.options.scale>>

\* the dependency array of the effect
DepsOf(p) == <<p.files.ref, p.options.prefix, p.options.scale, p.options.page>>

HookInit ==
    /\ mode = "hook"
    /\ env = [isNode |-> FALSE, canvasInstalled |-> FALSE]
    /\ files = <<>>
    /\ opts = None
    /\ aborted = FALSE
    /\ canvasModule = FALSE
    /\ phase = "init"
    /\ items = <<>>
    /\ completed = 0
    /\ progress = <<>>
    /\ errorCalls = <<>>
    /\ doneOrder = <<>>
    /\ returned = NoValue
    /\ hookPhase = "idle"
    /\ props \in HookProps
    /\ state = InitialState
    /\ deps = None
    /\ effectPending = FALSE
    /\ calls = <<>>
    /\ cleanup = 0
    /\ renders = 0

\* the first render of the component: the state is created and the effect scheduled
Mount ==
    /\ hookPhase = "idle"
    /\ hookPhase' = "mounted"
    /\ effectPending' = TRUE
    /\ UNCHANGED <<pipeVars, props, state, deps, calls, cleanup, renders>>

\* a re-render with new arguments: the effect is scheduled when a dependency changed
Rerender ==
    /\ hookPhase = "mounted"
    /\ ~effectPending
    /\ renders < MaxRenders
    /\ \E p \in HookProps :
           /\ props' = p
           /\ effectPending' = (Some(DepsOf(p)) # deps)
    /\ renders' = renders + 1
    /\ UNCHANGED <<pipeVars, hookPhase, state, deps, calls, cleanup>>

\* the effect runs: the cleanup of its previous run, then its body
RunEffect ==
    /\ hookPhase = "mounted"
    /\ effectPending
    /\ effectPending' = FALSE
    /\ deps' = Some(DepsOf(props))
    /\ IF Len(props.files.list) = 0
       THEN /\ calls' = Cleanup(calls, cleanup)
            /\ state' = ResetState(state)
            /\ cleanup' = 0
       ELSE /\ calls' = Append(Cleanup(calls, cleanup), NewCall(props))
            /\ state' = StartLoading(state)
            /\ cleanup' = Len(calls) + 1
    /\ UNCHANGED <<pipeVars, hookPhase, props, renders>>

\* the component is unmounted: the cleanup of the effect runs
Unmount ==
    /\ hookPhase = "mounted"
    /\ ~effectPending
    /\ hookPhase' = "unmounted"
    /\ calls' = Cleanup(calls, cleanup)
    /\ cleanup' = 0
    /\ UNCHANGED <<pipeVars, props, state, deps, effectPending, renders>>

\* the promise of call k resolves and the then callback runs
CallResolves(k) ==
    /\ calls[k].status = "pending"
    /\ \E results \in ResultLists(calls[k].files.list) :
           /\ state' = ThenCallback(calls[k], state, results)
           /\ calls' = [calls EXCEPT ![k].status = "resolved",
                                     ![k].value = results,
                                     ![k].wrote = ~calls[k].isCancelled]
    /\ UNCHANGED <<pipeVars, hookPhase, props, deps, effectPending, cleanup, renders>>

\* the promise of call k rejects and the catch callback runs
CallRejects(k) ==
    /\ calls[k].status = "pending"
    /\ \E err \in Rejections :
           /\ state' = CatchCallback(calls[k], state, err)
           /\ calls' = [calls EXCEPT ![k].status = "rejected",
                                     ![k].value = err,
                                     ![k].wrote = ~calls[k].isCancelled]
    /\ UNCHANGED <<pipeVars, hookPhase, props, deps, effectPending, cleanup, renders>>

HookNext ==
    \/ Mount
    \/ Rerender
    \/ RunEffect
    \/ Unmount
    \/ \E k \in 1..Len(calls) : CallResolves(k)
    \/ \E k \in 1..Len(calls) : CallRejects(k)

HookSpec == HookInit /\ [][HookNext]_vars

----------------------------------------------------------------------------
(* Properties of createThumbnail.                                           *)

Has(seq, x) == \E k \in 1..Len(seq) : seq[k] = x

Invocations == 1..Len(items)

\* the invocation has returned a thumbnail
Succeeded(it) == it.settle = "resolved" /\ it.result.thumbType \in {"string", "buffer"}

\* the invocation observed the signal aborted, at a checkpoint or in the catch block
ObservedAbort(it) ==
    \/ it.abortedAtCall
    \/ it.ckLoad = Some(TRUE)
    \/ it.ckPage = Some(TRUE)
    \/ it.ckCatch = Some(TRUE)

\* C1: createThumbnail returns undefined only when it observed the signal aborted;
\* otherwise it returns a populated result, which after a caught error is the
\* ErrorThumbnail carrying the message of the error.
C1_UndefinedOnlyOnAbort ==
    \A i \in Invocations :
        LET it == items[i]
        IN  it.settle = "resolved" =>
              /\ it.result = Undefined => ObservedAbort(it)
              /\ ~ObservedAbort(it) =>
                    /\ it.result.thumbType \in {"string", "buffer", "error"}
                    /\ it.thrown # None =>
                          it.result = [thumbType |-> "error",
                                       thumbData |-> Str(it.thrown[1].message)]

\* C2: when an error is caught while the signal is aborted, the call returns
\* undefined and no ErrorThumbnail.
C2_AbortBeforeError ==
    \A i \in Invocations :
        items[i].ckCatch = Some(TRUE) =>
            /\ items[i].settle = "resolved"
            /\ items[i].result = Undefined

C2_Witness ==
    \E i \in Invocations :
        /\ items[i].ckCatch = Some(TRUE)
        /\ items[i].thrown # None
        /\ items[i].pc = "done"
        /\ ~items[i].taskDestroyed

\* C3: a call made with an aborted signal returns undefined and starts nothing: no
\* stage, no document, no listener.
C3_PreAbortedStartsNothing ==
    \A i \in Invocations :
        items[i].abortedAtCall =>
            /\ items[i].pc = "done"
            /\ items[i].settle = "resolved"
            /\ items[i].result = Undefined
            /\ items[i].stages = <<>>
            /\ items[i].doc = "none"
            /\ items[i].adds = 0
            /\ ~items[i].listener

C3_Witness ==
    /\ mode = "single"
    /\ phase = "resolved"
    /\ items[1].abortedAtCall
    /\ World(items[1].file).load # "ok"
    /\ returned = Undefined

\* C4: a document that was opened is closed exactly once by the time the call has
\* settled, on every exit path.
C4_ClosedExactlyOnce ==
    \A i \in Invocations :
        /\ items[i].destroys <= 1
        /\ (items[i].pc = "done" /\ items[i].doc # "none") =>
               (items[i].doc = "closed" /\ items[i].destroys = 1)

\* C5: the promise of createThumbnail never rejects, whatever stage fails.
C5_NeverRejects ==
    /\ \A i \in Invocations : items[i].settle # "rejected"
    /\ phase # "rejected"

C5_Witness ==
    \E i \in Invocations :
        /\ items[i].thrown # None
        /\ items[i].ckCatch = Some(FALSE)
        /\ items[i].settle = "resolved"
        /\ Has(items[i].stages, "render")

\* C6: a checkpoint (after the load, before rendering) that observes the signal
\* aborted starts no later stage, closes the document and returns undefined.
C6_CheckpointsStop ==
    \A i \in Invocations :
        LET it == items[i]
        IN  /\ it.ckLoad = Some(TRUE) =>
                  /\ it.pc = "done" /\ it.result = Undefined
                  /\ it.doc = "closed"
                  /\ ~Has(it.stages, "getPage") /\ ~Has(it.stages, "surface")
                  /\ ~Has(it.stages, "render") /\ ~Has(it.stages, "encode")
            /\ it.ckPage = Some(TRUE) =>
                  /\ it.pc = "done" /\ it.result = Undefined
                  /\ it.doc = "closed"
                  /\ ~Has(it.stages, "surface")
                  /\ ~Has(it.stages, "render") /\ ~Has(it.stages, "encode")

C6_Witness ==
    /\ Len(items) = 2
    /\ items[1].ckLoad = Some(TRUE)
    /\ items[2].ckPage = Some(TRUE)

\* C7: a document of zero pages, the signal not aborted, yields an ErrorThumbnail;
\* no page is requested and the document is closed.
C7_NoPagesIsAnError ==
    \A i \in Invocations :
        LET it == items[i]
        IN  (it.ckLoad = Some(FALSE) /\ it.numPages = 0) =>
                /\ it.pc = "done"
                /\ it.result.thumbType = "error"
                /\ ~Has(it.stages, "getPage")
                /\ it.doc = "closed"

\* C8: for a document of N >= 1 pages the index passed to getPage lies in 1..N: it
\* is 1 for p <= 0 and for an omitted page option, N for p > N, and p otherwise.
C8_PageClamped ==
    \A i \in Invocations :
        LET it == items[i]
            N  == it.numPages
        IN  (Has(it.stages, "getPage") /\ N >= 1) =>
                /\ it.pageReq \in 1..N
                /\ opts.page = None => it.pageReq = 1
                /\ opts.page # None =>
                      LET p == opts.page[1]
                      IN  /\ p <= 0 => it.pageReq = 1
                          /\ p > N => it.pageReq = N
                          /\ p \in 1..N => it.pageReq = p

C8_Witness ==
    \E i \in Invocations :
        /\ Has(items[i].stages, "getPage")
        /\ items[i].numPages >= 2
        /\ opts.page # None
        /\ opts.page[1] > items[i].numPages
        /\ items[i].pageReq = items[i].numPages
        /\ Succeeded(items[i])

\* C9: a successful result is tagged "buffer" and carries a Buffer when output is
\* "buffer", and is tagged "string" and carries a data URL string otherwise.
C9_TagMatchesPayload ==
    \A i \in Invocations :
        LET it == items[i]
        IN  (it.settle = "resolved" /\ it.exit = "normal") =>
                IF opts.output = Some("buffer")
                THEN /\ it.result.thumbType = "buffer"
                     /\ it.result.thumbData.kind = "Buffer"
                ELSE /\ it.result.thumbType = "string"
                     /\ it.result.thumbData.kind = "string"
                     /\ it.result.thumbData.val[1] = "data:image/png;base64"

C9_Witness ==
    \E i \in Invocations :
        /\ Succeeded(items[i])
        /\ opts.output = Some("buffer")
        /\ ~env.isNode
        /\ items[i].result.thumbData = Buf(Paint(items[i].file, items[i].pageReq, 1))

----------------------------------------------------------------------------
(* Properties of createThumbnails.                                          *)

\* C10: the list createThumbnails returns is in the order of the descriptors in the
\* input, whatever the order in which the items settled.
C10_InputOrder ==
    (mode = "batch" /\ phase = "resolved") =>
        \A a, b \in 1..Len(returned) :
            a < b => returned[a].extra < returned[b].extra

C10_Witness ==
    /\ mode = "batch"
    /\ phase = "resolved"
    /\ Len(returned) = 2
    /\ doneOrder = <<2, 1>>

\* the invocation returned a populated result: a thumbnail or an ErrorThumbnail
Populated(it) ==
    it.settle = "resolved" /\ it.result.thumbType \in {"string", "buffer", "error"}

\* the positions of the returned list that hold the entry of descriptor d
EntriesOf(d) == { a \in 1..Len(returned) : returned[a].extra = d.extra }

\* C11: the list createThumbnails returns never holds undefined; it holds exactly one
\* entry for each descriptor whose createThumbnail call returned a populated result
\* and none for a descriptor whose call returned undefined.
C11_OneEntryPerResult ==
    (mode = "batch" /\ phase = "resolved") =>
        /\ \A a \in 1..Len(returned) : returned[a] # Undefined
        /\ \A k \in Invocations :
               Cardinality(EntriesOf(items[k].d)) = IF Populated(items[k]) THEN 1 ELSE 0
        /\ Len(returned) = Cardinality({ k \in Invocations : Populated(items[k]) })

C11_Witness ==
    /\ mode = "batch"
    /\ phase = "resolved"
    /\ Len(items) = 2
    /\ Populated(items[2])
    /\ items[1].result = Undefined
    /\ Len(returned) = 1

\* C12: when the signal is never aborted, every item whose createThumbnail call
\* failed appears in the returned list, at its position among the valid descriptors,
\* as an ErrorThumbnail.
C12_FailuresInline ==
    (mode = "batch" /\ phase = "resolved" /\ ~aborted) =>
        \A k \in Invocations :
            items[k].thrown # None =>
                /\ k <= Len(returned)
                /\ returned[k].extra = items[k].d.extra
                /\ returned[k].thumbType = "error"

\* C13: the completed counter is incremented, and onProgress invoked, for an item
\* exactly when its createThumbnail call has returned and did not return undefined
\* because of an abort: an aborted item is not counted.
C13_AbortsNotCounted ==
    mode = "batch" =>
        /\ \A k \in Invocations :
               items[k].counted <=>
                   (items[k].settle = "resolved" /\ ~ObservedAbort(items[k]))
        /\ completed = Cardinality({ k \in Invocations :
                                       items[k].settle = "resolved"
                                       /\ ~ObservedAbort(items[k]) })

\* the number of descriptors of the input that have a file identifier
Total == Cardinality({ j \in 1..Len(files) : files[j].file # "" })

\* C14: in a batch whose signal is never aborted, onProgress is called exactly total
\* times, total being the number of valid descriptors, each time with second argument
\* total, and the first arguments are 1, 2, ..., total in call order, whatever the
\* order in which the items complete and whether they succeed or fail.
C14_ProgressSequence ==
    (mode = "batch" /\ phase = "resolved" /\ ~aborted /\ opts.hasProgress) =>
        progress = [k \in 1..Total |-> <<k, Total>>]

C14_Witness ==
    /\ mode = "batch"
    /\ phase = "resolved"
    /\ ~aborted
    /\ opts.hasProgress
    /\ doneOrder = <<2, 1>>
    /\ items[1].thrown # None
    /\ Succeeded(items[2])
    /\ progress = <<<<1, 2>>, <<2, 2>>>>

\* the createThumbnail calls that have started and have not returned
InFlight == { k \in Invocations : items[k].settle = "pending" }

\* C15: with the concurrency option given, no more than
\* min(max(concurrency, 1), itemCount) createThumbnail calls are in flight at a time.
C15_ConcurrencyBound ==
    (mode = "batch" /\ opts.concurrency # None) =>
        Cardinality(InFlight) <= Min(Max(opts.concurrency[1], 1), Len(items))

\* the createThumbnail calls made for the descriptor at position j of the input
CallsFor(j) == { k \in Invocations : items[k].d = files[j] /\ items[k].exit # "skipped" }

\* C16: when the signal is not aborted, createThumbnails calls createThumbnail exactly
\* once for every valid descriptor, and makes no other call, whatever the concurrency
\* option and the interleaving.
C16_EachValidOnce ==
    (mode = "batch" /\ phase # "init" /\ ~aborted) =>
        /\ \A j \in 1..Len(files) :
               files[j].file # "" => Cardinality(CallsFor(j)) = 1
        /\ Len(items) = Total

C16_Witness ==
    /\ mode = "batch"
    /\ phase = "resolved"
    /\ ~aborted
    /\ opts.concurrency = Some(2)
    /\ Total = 2
    /\ doneOrder = <<2, 1>>
    /\ \A j \in 1..2 : Cardinality(CallsFor(j)) = 1

\* the invocation caught an error while the signal was not aborted
Failed(it) == it.thrown # None /\ it.ckCatch = Some(FALSE)

\* C17: with onError given, it is invoked exactly once, with the resolved identifier,
\* for every item that failed, and never for an item that succeeded or was aborted.
C17_OnErrorPerFailure ==
    (mode = "batch" /\ phase = "resolved" /\ opts.hasOnError) =>
        /\ \A k \in Invocations :
               Cardinality({ c \in 1..Len(errorCalls) : errorCalls[c] = items[k].file })
                   = Cardinality({ n \in Invocations :
                                     items[n].file = items[k].file /\ Failed(items[n]) })
        /\ \A c \in 1..Len(errorCalls) :
               \E k \in Invocations : errorCalls[c] = items[k].file

\* C18: createThumbnails called with an empty list, or with a signal that is already
\* aborted, resolves to an empty list in the call itself: no createThumbnail call is
\* made and neither onProgress nor onError is invoked, then or later.
C18_EmptyOrPreAborted ==
    /\ [][(/\ mode = "batch"
           /\ phase = "init"
           /\ phase' # "init"
           /\ (Len(files) = 0 \/ SignalAborted(opts, aborted)))
          => (/\ phase' = "resolved"
              /\ returned' = <<>>
              /\ items' = <<>>
              /\ progress' = <<>>
              /\ errorCalls' = <<>>)]_vars
    /\ []((mode = "batch" /\ phase = "resolved" /\ items = <<>>)
          => (returned = <<>> /\ progress = <<>> /\ errorCalls = <<>>))
    /\ [][(mode = "batch" /\ phase = "resolved" /\ items = <<>>)
          => UNCHANGED <<phase, returned, items, progress, errorCalls>>]_vars

C18_Witness ==
    /\ mode = "batch"
    /\ phase = "resolved"
    /\ aborted
    /\ Total = 2
    /\ opts.hasProgress
    /\ items = <<>>
    /\ returned = <<>>

\* C19: a descriptor without a file identifier is never passed to createThumbnail,
\* never appears in the returned list, triggers no callback and is not counted in the
\* total reported to onProgress.
C19_EmptyFileExcluded ==
    mode = "batch" =>
        /\ \A k \in Invocations : items[k].d.file # ""
        /\ phase = "resolved" => \A a \in 1..Len(returned) : returned[a].file # ""
        /\ \A c \in 1..Len(progress) : progress[c][2] = Total
        /\ Len(progress) <= Total
        /\ completed <= Total
        /\ Len(errorCalls) <= Total

C19_Witness ==
    /\ mode = "batch"
    /\ phase = "resolved"
    /\ Len(files) = 2
    /\ files[1].file = ""
    /\ files[2].file = "a.pdf"
    /\ progress = <<<<1, 1>>>>
    /\ Len(returned) = 1
    /\ returned[1].extra = 2

\* C20: every entry of the returned list carries the fields of its descriptor
\* unchanged, the file identifier without the prefix included, plus the thumbType and
\* thumbData its createThumbnail call returned; the prefix is applied only to the
\* identifier passed to createThumbnail, and the input list is never changed.
C20_EntryIsEnrichedCopy ==
    /\ []((mode = "batch" /\ phase = "resolved") =>
            \A a \in 1..Len(returned) :
                LET e == returned[a]
                IN  /\ DOMAIN e = {"file", "extra", "thumbType", "thumbData"}
                    /\ e.extra \in 1..Len(files)
                    /\ [file |-> e.file, extra |-> e.extra] = files[e.extra]
                    /\ \E k \in Invocations :
                           /\ items[k].d = files[e.extra]
                           /\ items[k].file = Default(opts.prefix, "") \o e.file
                           /\ e.thumbType = items[k].result.thumbType
                           /\ e.thumbData = items[k].result.thumbData)
    /\ [][files' = files]_vars

C20_Witness ==
    /\ mode = "batch"
    /\ phase = "resolved"
    /\ opts.prefix = Some("p/")
    /\ Len(returned) = 2
    /\ returned[2].file = "a.pdf"
    /\ returned[2].extra = 2
    /\ items[2].file = "p/a.pdf"
    /\ returned[2].thumbType = "buffer"

\* C21: when the signal is aborted while createThumbnails runs, the batch promise does
\* not reject; the list it resolves to holds only the items that returned a populated
\* result, an item that observed the abort contributes nothing, and the list may be
\* shorter than the number of valid descriptors.
C21_AbortShortensList ==
    (mode = "batch" /\ aborted) =>
        /\ phase # "rejected"
        /\ \A k \in Invocations : items[k].settle # "rejected"
        /\ phase = "resolved" =>
               /\ Len(returned) <= Total
               /\ \A a \in 1..Len(returned) :
                      \E k \in Invocations :
                          /\ items[k].d.extra = returned[a].extra
                          /\ Populated(items[k])
               /\ \A k \in Invocations :
                      ObservedAbort(items[k]) => EntriesOf(items[k].d) = {}

C21_Witness ==
    /\ mode = "batch"
    /\ phase = "resolved"
    /\ aborted
    /\ Total = 2
    /\ Len(returned) = 1
    /\ Succeeded(items[1])
    /\ ObservedAbort(items[2])
    /\ items[2].thrown # None

----------------------------------------------------------------------------
(* Properties of getResult and of the stages of createThumbnail.            *)

\* the surface getResult was given by the invocation, in the runtime of the call
SurfaceOf(it) ==
    [type   |-> IF env.isNode THEN "node" ELSE "html",
     canvas |-> [png |-> Paint(it.file, it.pageReq, Default(opts.scale, 1))]]

\* C28: for the surface of every thumbnail produced, in the browser and in the
\* server-side canvas branch, the buffer output equals the base64-decoded payload of
\* the string output: decodeBase64(dataUrl.split(",")[1]) = buffer.
C28_BufferIsDecodedString ==
    \A i \in Invocations :
        Succeeded(items[i]) =>
            LET stringResult == getResult(SurfaceOf(items[i]), FALSE)
                bufferResult == getResult(SurfaceOf(items[i]), TRUE)
            IN  /\ items[i].result \in {stringResult, bufferResult}
                /\ stringResult.thumbData.val[1] = "data:image/png;base64"
                /\ bufferResult.thumbData.kind = "Buffer"
                /\ bufferResult.thumbData.val
                       = Base64Decode(stringResult.thumbData.val[2])

C28_Witness ==
    \E i \in Invocations :
        /\ Succeeded(items[i])
        /\ env.isNode
        /\ opts.output = Some("string")
        /\ opts.scale = Some(2)
        /\ Base64Decode(items[i].result.thumbData.val[2])
               = getResult(SurfaceOf(items[i]), TRUE).thumbData.val

\* the load of the invocation was started on a readable document and ended without
\* opening it
LoadCutShort(it) ==
    /\ Has(it.stages, "load")
    /\ World(it.file).load = "ok"
    /\ it.pc # "loading"
    /\ it.doc = "none"

\* C29 as the specification states it: an abort never interrupts a stage in flight, so
\* a load that was started on a readable document always opens the document.
C29_NeverPreempts ==
    \A i \in Invocations : ~LoadCutShort(items[i])

\* C29, amended: an abort interrupts the load stage and no other. While the document
\* loads, abortHandler is registered and an abort destroys the loading task, which may
\* reject the load at once; the call then returns undefined from the catch block.
\* After the load the handler is removed: an abort during the page fetch is acted on
\* at the checkpoint that follows the fetch, and an abort during the rendering or the
\* encoding is not acted on, the call returning its thumbnail.
C29_PreemptsOnlyLoad ==
    /\ [](\A i \in Invocations :
            LET it == items[i]
            IN  /\ it.listener => it.pc = "loading"
                /\ it.taskDestroyed => (aborted /\ Has(it.stages, "load"))
                /\ LoadCutShort(it) =>
                       /\ aborted
                       /\ it.thrown = Some(ErrorOf("Loading aborted"))
                       /\ it.stages = <<"load">>
                       /\ it.result = Undefined
                /\ (Has(it.stages, "getPage") /\ GetPageOk(it) /\ it.pc # "getpage")
                       => it.ckPage # None
                /\ (Has(it.stages, "render") /\ World(it.file).renderOk /\ it.pc = "done")
                       => Succeeded(it))
    /\ [][aborted' # aborted =>
             \A i \in Invocations :
                 items'[i] = IF items[i].pc = "loading" /\ opts.hasSignal
                             THEN [items[i] EXCEPT !.taskDestroyed = TRUE]
                             ELSE items[i]]_vars

C29_Witness ==
    \E i, j \in Invocations :
        /\ aborted
        /\ LoadCutShort(items[i])
        /\ items[i].exit = "catchAbort"
        /\ Succeeded(items[j])
        /\ items[j].ckPage = Some(FALSE)

\* the stages of createThumbnail in the order of the code
StageOrder == <<"load", "getPage", "surface", "render", "encode">>

\* C30: within one createThumbnail invocation the stages start in the order load,
\* page selection and fetch, surface, render, encode, close, each after the previous
\* one has completed; a page is fetched only from an open document, and the document
\* is closed only when the call is over, after the encoding when the render succeeded.
C30_StagesInOrder ==
    \A i \in Invocations :
        LET it == items[i]
        IN  /\ Len(it.stages) <= Len(StageOrder)
            /\ it.stages = SubSeq(StageOrder, 1, Len(it.stages))
            /\ it.pc = "loading" => (it.stages = <<"load">> /\ it.doc = "none")
            /\ it.pc = "getpage" => (Len(it.stages) = 2 /\ it.doc = "open")
            /\ it.pc = "canvas" => (Len(it.stages) = 3 /\ it.doc = "open")
            /\ it.pc = "render" => (Len(it.stages) = 4 /\ it.doc = "open")
            /\ Has(it.stages, "getPage") =>
                   (it.doc # "none" /\ it.pageReq = PageToFetch(Default(opts.page, 1),
                                                                it.numPages))
            /\ it.doc = "closed" => it.pc = "done"
            /\ Succeeded(it) => (it.stages = StageOrder /\ it.doc = "closed")

C30_Witness ==
    \E i \in Invocations :
        /\ Succeeded(items[i])
        /\ items[i].stages = StageOrder
        /\ items[i].doc = "closed"
        /\ items[i].numPages = 3
        /\ items[i].pageReq = 3

----------------------------------------------------------------------------
(* Properties of useThumbnails (checked under HookSpec).                    *)

\* the calls of the hook whose signal is not aborted
LiveCalls == { k \in 1..Len(calls) : ~calls[k].aborted }

\* C22: the hook aborts the signal of its call when it is unmounted and when the
\* effect runs again, before the new call is started: at most one call has a signal
\* that is not aborted, it is the newest call and the one the current effect owns, and
\* after the unmount there is none.
C22_AtMostOneLiveCall ==
    /\ Cardinality(LiveCalls) <= 1
    /\ \A k \in LiveCalls :
           /\ k = Len(calls)
           /\ k = cleanup
           /\ ~calls[k].isCancelled
           /\ hookPhase = "mounted"
    /\ hookPhase = "unmounted" => LiveCalls = {}

C22_Witness ==
    /\ hookPhase = "unmounted"
    /\ Len(calls) = 2
    /\ calls[1].aborted /\ calls[1].status = "pending"
    /\ calls[2].aborted /\ calls[2].status = "pending"

\* call k settles in this step
Settles(k) == calls[k].status = "pending" /\ calls'[k].status # "pending"

\* C23: a call that settles after the hook was unmounted, or after the effect ran
\* again (a newer call was started, or the list became empty), leaves the state of
\* the hook as it is, whether it resolves or rejects and in whatever order the calls
\* settle: a settlement changes the state only for the call the current effect owns,
\* which is the newest one.
C23_StaleCallsWriteNothing ==
    [][\A k \in 1..Len(calls) :
          Settles(k) =>
              /\ (hookPhase = "unmounted" \/ k # Len(calls) \/ k # cleanup)
                     => state' = state
              /\ state' # state => (k = Len(calls) /\ hookPhase = "mounted")
              /\ calls'[k].wrote = (k = cleanup)]_vars

C23_Witness ==
    /\ hookPhase = "mounted"
    /\ Len(calls) = 2
    /\ calls[2].status = "pending"
    /\ calls[1].status = "resolved"
    /\ Len(calls[1].value) = 1
    /\ ~calls[1].wrote
    /\ state = [thumbnails |-> <<>>, isLoading |-> TRUE, error |-> None]

\* C24: isLoading is false before the first call; while the hook is mounted it is
\* true exactly while the call of the current effect is pending, so it becomes true
\* when a call is started for a non-empty list, stays true when a newer call replaces
\* that call, and is false once the newest call has resolved or rejected.
C24_LoadingWhilePending ==
    /\ hookPhase = "idle" => ~state.isLoading
    /\ hookPhase = "mounted" =>
           (state.isLoading <=> (cleanup # 0 /\ calls[cleanup].status = "pending"))
    /\ (hookPhase = "mounted" /\ ~effectPending /\ Len(props.files.list) > 0) =>
           (state.isLoading <=> calls[Len(calls)].status = "pending")

C24_Witness ==
    /\ hookPhase = "mounted"
    /\ Len(calls) = 2
    /\ calls[1].wrote
    /\ calls[2].status = "rejected"
    /\ calls[2].wrote
    /\ ~state.isLoading
    /\ Len(state.thumbnails) = 1

\* the positions of the error entries of a result list
ErrorPositions(results) == { n \in 1..Len(results) : results[n].thumbType = "error" }

\* "file: message" of an error entry
MessageOf(e) == e.file \o ": " \o e.thumbData

\* the message of the one Error the hook reports for a result list of at most two
\* entries that has error entries
ExpectedMessage(results) ==
    IF Cardinality(ErrorPositions(results)) = 2
    THEN MessageOf(results[1]) \o "; " \o MessageOf(results[2])
    ELSE MessageOf(results[CHOOSE n \in ErrorPositions(results) : TRUE])

\* C25: when the call of the current effect resolves, the thumbnails of the hook are
\* the non-error entries of the result in result order, and error is null if the
\* result has no error entry and otherwise one Error whose message joins
\* "file: message" of every error entry with "; "; when it rejects, the thumbnails
\* stay, and error is the rejection value, wrapped in an Error if it is not one.
C25_StateFromSettlement ==
    [][\A k \in 1..Len(calls) :
          (Settles(k) /\ k = cleanup) =>
              LET v == calls'[k].value
              IN  IF calls'[k].status = "resolved"
                  THEN /\ ~state'.isLoading
                       /\ Len(state'.thumbnails) = Len(v) - Cardinality(ErrorPositions(v))
                       /\ \A n \in 1..Len(state'.thumbnails) :
                              state'.thumbnails[n].thumbType = "string"
                       /\ \A a, b \in 1..Len(state'.thumbnails) :
                              a < b => state'.thumbnails[a].extra < state'.thumbnails[b].extra
                       /\ \A n \in 1..Len(v) :
                              v[n].thumbType # "error" => Has(state'.thumbnails, v[n])
                       /\ state'.error = IF ErrorPositions(v) = {} THEN None
                                         ELSE Some(ErrorOf(ExpectedMessage(v)))
                  ELSE /\ ~state'.isLoading
                       /\ state'.thumbnails = state.thumbnails
                       /\ state'.error # None
                       /\ state'.error[1].isError
                       /\ state'.error[1].message = v.message
                       /\ v.isError => state'.error[1] = v]_vars

C25_Witness ==
    /\ hookPhase = "mounted"
    /\ cleanup = 1
    /\ calls[1].status = "resolved"
    /\ Len(calls[1].value) = 2
    /\ state.thumbnails = <<>>
    /\ state.error = Some(ErrorOf("a.pdf: PDF has no pages; b.jpg: PDF has no pages"))

\* the effect has run for the arguments of the latest render
Settled == hookPhase = "mounted" /\ ~effectPending

\* the newest call was made with the arguments of the latest render and is the call
\* the current effect owns
CallForProps ==
    /\ Len(calls) > 0
    /\ cleanup = Len(calls)
    /\ calls[cleanup].files = props.files
    /\ calls[cleanup].options = props.options

\* C26 as the specification states it: every change of the file list or of an option
\* starts a call with the current files and options, so once the hook has made a
\* call, its newest call is always the one for the arguments of the latest render.
C26_CallAfterEveryChange ==
    (Settled /\ Len(calls) > 0) => CallForProps

\* C26, amended: a new call, with the current files, the current options and a fresh
\* signal, is started every time the hook is first rendered with, or the file list
\* (by identity) or the value of prefix, scale or page changes to, arguments whose
\* file list is not empty; no call is started when none of them changed, and none
\* when the new list is empty.
C26_CallAfterChangeToFiles ==
    /\ []((Settled /\ Len(props.files.list) > 0) => CallForProps)
    /\ []((Settled /\ Len(props.files.list) = 0) => cleanup = 0)
    /\ [][Len(calls') # Len(calls) =>
             LET c == calls'[Len(calls')]
             IN  /\ Len(calls') = Len(calls) + 1
                 /\ c.files = props.files /\ c.options = props.options
                 /\ Len(c.files.list) > 0
                 /\ ~c.aborted /\ ~c.isCancelled /\ c.status = "pending"
                 /\ \A k \in 1..Len(calls) : calls'[k].aborted
                 /\ cleanup # 0 =>
                        \/ calls[cleanup].files.ref # c.files.ref
                        \/ calls[cleanup].options # c.options]_vars
    /\ [][(Settled /\ props' # props /\ effectPending' = FALSE) =>
             /\ props'.files.ref = props.files.ref
             /\ props'.options = props.options]_vars

C26_Witness ==
    /\ Settled
    /\ renders = 1
    /\ Len(calls) = 2
    /\ calls[1].files = calls[2].files
    /\ calls[1].options.page = None
    /\ calls[2].options.page = Some(2)
    /\ calls[1].aborted
    /\ ~calls[2].aborted

\* C27: with an empty file list the hook calls createThumbnails not at all and its
\* state becomes thumbnails = [], isLoading = false, error = null, whatever the state
\* held before.
C27_EmptyListResets ==
    /\ []((Settled /\ Len(props.files.list) = 0) =>
             /\ state = [thumbnails |-> <<>>, isLoading |-> FALSE, error |-> None]
             /\ cleanup = 0
             /\ \A k \in 1..Len(calls) : Len(calls[k].files.list) > 0)
    /\ [][(effectPending /\ ~effectPending' /\ Len(props.files.list) = 0) =>
             Len(calls') = Len(calls)]_vars

C27_Witness ==
    /\ Settled
    /\ Len(props.files.list) = 0
    /\ Len(calls) = 1
    /\ calls[1].wrote
    /\ calls[1].status = "resolved"
    /\ Len(calls[1].value) = 2
    /\ calls[1].value[1].thumbType = "string"
    /\ calls[1].value[2].thumbType = "error"
    /\ state = InitialState

----------------------------------------------------------------------------
(* Properties of cancellation, of the join and of the shared state.         *)

\* C31: when the signal is aborted while the document loads, the abort listener
\* destroys the loading task and the call resolves to undefined, not to an error
\* result, whether the load then rejects or still resolves; a document the load
\* still opened is closed.
C31_AbortDuringLoad ==
    /\ [](\A i \in Invocations :
            LET it == items[i]
            IN  (it.taskDestroyed /\ it.pc # "loading") =>
                    /\ it.settle = "resolved"
                    /\ it.result = Undefined
                    /\ it.exit \in {"catchAbort", "afterLoad"}
                    /\ it.exit = "catchAbort" => (it.thrown # None /\ it.doc = "none")
                    /\ it.exit = "afterLoad" => (it.doc = "closed" /\ it.destroys = 1))
    /\ [][(aborted' /\ ~aborted) =>
             \A i \in Invocations :
                 items[i].pc = "loading" => items'[i].taskDestroyed]_vars

C31_Witness ==
    \E i, j \in Invocations :
        /\ items[i].taskDestroyed
        /\ items[i].exit = "afterLoad"
        /\ items[i].doc = "closed"
        /\ items[j].taskDestroyed
        /\ items[j].exit = "catchAbort"
        /\ World(items[j].file).load = "ok"

\* C32: the abort listener is on the signal exactly while the load is awaited: it is
\* added before the await and removed when the load settles, resolved or rejected, so
\* that no listener of the call remains after the load stage and a later abort
\* destroys no loading task.
C32_ListenerOnlyWhileLoading ==
    /\ [](\A i \in Invocations :
            LET it == items[i]
                n  == IF opts.hasSignal THEN 1 ELSE 0
            IN  /\ it.listener <=> (it.pc = "loading" /\ opts.hasSignal)
                /\ it.adds = (IF Has(it.stages, "load") THEN n ELSE 0)
                /\ it.removes = (IF Has(it.stages, "load") /\ it.pc # "loading" THEN n ELSE 0))
    /\ [][\A i \in Invocations :
             (items[i].pc # "loading" /\ i <= Len(items')) =>
                 items'[i].taskDestroyed = items[i].taskDestroyed]_vars

C32_Witness ==
    \E i \in Invocations :
        /\ aborted
        /\ items[i].pc = "done"
        /\ items[i].thrown # None
        /\ items[i].ckCatch = Some(FALSE)
        /\ items[i].adds = 1
        /\ items[i].removes = 1
        /\ ~items[i].listener
        /\ ~items[i].taskDestroyed

\* the invocation got past its last checkpoint and its rendering succeeds
PastLastCheckpoint(it) == Has(it.stages, "render") /\ World(it.file).renderOk

\* C33: an abort after the last checkpoint, while the page is rendered or encoded,
\* does not discard the work: the call returns its thumbnail and closes the document,
\* and in a batch the item is counted by onProgress and is in the returned list.
C33_LateAbortKeepsResult ==
    /\ [](\A i \in Invocations :
            LET it == items[i]
            IN  (PastLastCheckpoint(it) /\ it.pc = "done") =>
                    /\ Succeeded(it)
                    /\ it.doc = "closed"
                    /\ mode = "batch" => (it.counted /\ it.slot = Merge(it.d, it.result))
                    /\ (mode = "batch" /\ phase = "resolved") =>
                           \E a \in 1..Len(returned) : returned[a] = Merge(it.d, it.result))
    /\ [][\A i \in Invocations :
             (aborted /\ items[i].pc = "render" /\ items'[i].pc = "done"
                      /\ World(items[i].file).renderOk) =>
                 /\ Succeeded(items'[i])
                 /\ completed' = completed + (IF mode = "batch" THEN 1 ELSE 0)
                 /\ (mode = "batch" /\ opts.hasProgress) =>
                        progress' = Append(progress, <<completed + 1, Len(items)>>)]_vars

C33_Witness ==
    /\ mode = "batch"
    /\ phase = "resolved"
    /\ opts.hasProgress
    /\ doneOrder = <<1, 2>>
    /\ ObservedAbort(items[1])
    /\ items[2].ckPage = Some(FALSE)
    /\ Succeeded(items[2])
    /\ returned = <<Merge(items[2].d, items[2].result)>>
    /\ progress = <<<<1, 2>>, <<2, 2>>>>

\* C34: once the signal is aborted, createThumbnails starts createThumbnail for no
\* further item, and the items in flight stop at their next checkpoint: a call that
\* awaits the load or the page returns undefined when that await is over.
C34_AbortStopsBatch ==
    /\ [](mode = "batch" =>
             \A i \in Invocations :
                 /\ ~items[i].abortedAtCall
                 /\ items[i].exit # "preAbort")
    /\ [][(mode = "batch" /\ aborted) =>
             /\ Len(items') = Len(items)
             /\ \A i \in Invocations :
                    /\ items[i].stages # <<>> \/ items'[i].stages = <<>>
                       \/ items[i].pc = "canvasmod"
                    /\ (items[i].pc \in {"loading", "getpage"} /\ items'[i].pc # items[i].pc)
                           => /\ items'[i].pc = "done"
                              /\ items'[i].result = Undefined
                              /\ items'[i].stages = items[i].stages]_vars

C34_Witness ==
    /\ mode = "batch"
    /\ aborted
    /\ Len(items) = 2
    /\ items[1].exit = "afterPage"
    /\ items[2].exit = "afterLoad"
    /\ items[1].file = items[2].file

\* every createThumbnail call of the batch has settled
AllSettled == \A k \in Invocations : items[k].pc = "done"

\* C35: createThumbnails resolves only after every createThumbnail call it started
\* has settled, nothing is in flight and no onProgress call is made after it has
\* resolved, and once every call has settled it does resolve, with or without an
\* abort.
C35_JoinIsABarrier ==
    /\ []((mode = "batch" /\ phase = "resolved") =>
             /\ AllSettled
             /\ InFlight = {}
             /\ Len(doneOrder) = Len(items))
    /\ [][(mode = "batch" /\ phase = "resolved") =>
             UNCHANGED <<phase, returned, items, completed, progress, errorCalls>>]_vars
    /\ ((mode = "batch" /\ phase = "running" /\ AllSettled) ~> phase = "resolved")

C35_Witness ==
    /\ mode = "batch"
    /\ phase = "resolved"
    /\ aborted
    /\ Len(items) = 2
    /\ doneOrder = <<2, 1>>
    /\ items[2].exit = "afterLoad"
    /\ Succeeded(items[1])

\* C36: in every state of a createThumbnails run 0 <= completed <= total, completed
\* is the number of callbacks that have counted and the number of onProgress calls
\* made so far, and call number k passes k: no increment is lost or duplicated, in
\* any interleaving of the items, with or without an abort.
C36_CounterIsExact ==
    mode = "batch" =>
        /\ completed \in 0..Total
        /\ completed = Cardinality({ k \in Invocations : items[k].counted })
        /\ Len(progress) = (IF opts.hasProgress THEN completed ELSE 0)
        /\ \A k \in 1..Len(progress) : progress[k] = <<k, Total>>

C36_Witness ==
    /\ mode = "batch"
    /\ phase = "running"
    /\ aborted
    /\ doneOrder = <<2, 1>>
    /\ completed = 2
    /\ progress = <<<<1, 2>>, <<2, 2>>>>

\* What createThumbnail resolves to for a file when the signal is never aborted,
\* computed from the file, the options and the environment alone.
OutcomeAlone(file, o, e) ==
    LET w    == World(file)
        page == PageToFetch(Default(o.page, 1), w.numPages)
        ok   == /\ e.isNode => e.canvasInstalled
                /\ w.load = "ok"
                /\ page \in 1..w.numPages
                /\ w.pageOk
                /\ w.renderOk
    IN  IF ok
        THEN getResult([type   |-> IF e.isNode THEN "node" ELSE "html",
                        canvas |-> [png |-> Paint(file, page, Default(o.scale, 1))]],
                       o.output = Some("buffer"))
        ELSE Undefined

\* The invocations whose record differs between this state and the next.
Touched == { k \in Invocations : k \in 1..Len(items') /\ items'[k] # items[k] }

ThrownText(t) == IF t.isError THEN t.message ELSE t.message

\* C38: when a stage throws while the signal is not aborted, the call returns an
\* ErrorThumbnail; its thumbData is the string form of a thrown value that is not an
\* Error object, and the message of a thrown Error.
C38_ThrownValueStringified ==
    \A i \in Invocations :
        (Failed(items[i]) /\ items[i].settle = "resolved") =>
            /\ items[i].result.thumbType = "error"
            /\ items[i].result.thumbData = Str(ThrownText(items[i].thrown[1]))

\* C39: starting a call leaves the thumbnails shown so far as they are and only sets
\* isLoading and clears error; a rejection of a call leaves them as they are and
\* changes at most isLoading and error; the thumbnails change only in the step in
\* which the newest call, not cancelled, resolves, or in which the effect runs for an
\* empty file list.
C39_ThumbnailsKeptUntilReplaced ==
    [][ mode = "hook" =>
          /\ Len(calls') > Len(calls) =>
                 state' = [state EXCEPT !.isLoading = TRUE, !.error = None]
          /\ \A k \in 1..Len(calls) :
                 (calls[k].status = "pending" /\ calls'[k].status = "rejected") =>
                     state'.thumbnails = state.thumbnails
          /\ state'.thumbnails # state.thumbnails =>
                 \/ /\ Len(calls') = Len(calls)
                    /\ Len(calls) > 0
                    /\ calls[Len(calls)].status = "pending"
                    /\ calls'[Len(calls)].status = "resolved"
                    /\ ~calls[Len(calls)].isCancelled
                 \/ /\ effectPending /\ ~effectPending'
                    /\ Len(props.files.list) = 0 ]_vars

\* The thumbnails of the first call are still shown after a second call was started
\* and has rejected: the state carries the error of the second call next to them.
C39_Witness ==
    /\ mode = "hook" /\ Len(calls) = 2
    /\ calls[1].status = "resolved" /\ calls[1].wrote
    /\ calls[2].status = "rejected" /\ calls[2].wrote
    /\ Len(state.thumbnails) > 0
    /\ state.thumbnails = SelectSeq(calls[1].value, LAMBDA r : r.thumbType # "error")
    /\ ~state.isLoading /\ state.error # None

====
